---- MODULE Spec2Model ----
(***************************************************************************)
(* csv2sql: CSV to SQL DDL+DML.  A model of the converter's three source   *)
(* variants (src/main.go, src/unnamed/part_002, src/unnamed/part_001):     *)
(* header sanitising, column type sampling, row serialisation and batched  *)
(* INSERT emission.                                                        *)
(*                                                                         *)
(* A Go string is a sequence of one-character strings, so that trimming,   *)
(* escaping, regular expressions and number parsing are computed character *)
(* by character.  A column type string is a record [kind, n]: Lit(s) is    *)
(* the literal s, VARCHAR(n) is fmt.Sprintf("VARCHAR(%d)", n).             *)
(***************************************************************************)
EXTENDS Integers, Sequences, FiniteSets, TLC

\* ------------------------------------------------------------------ bounds

\* Most data rows in an input file.
MaxRows == 3
\* Largest configured BatchSize.
MaxBatch == 2
\* Largest configured MaxSampleSize.
MaxSample == 2
\* Longest raw header / raw value of the pure-function specifications.
MaxNameLen == 3

\* ----------------------------------------------------------- characters

Digits == {"0", "1", "2", "3", "4", "5", "6", "7", "8", "9"}

UpperSeq ==
    <<"A", "B", "C", "D", "E", "F", "G", "H", "I", "J", "K", "L", "M",
      "N", "O", "P", "Q", "R", "S", "T", "U", "V", "W", "X", "Y", "Z">>

LowerSeq ==
    <<"a", "b", "c", "d", "e", "f", "g", "h", "i", "j", "k", "l", "m",
      "n", "o", "p", "q", "r", "s", "t", "u", "v", "w", "x", "y", "z">>

UpperLetters == {UpperSeq[i] : i \in 1..26}

LowerLetters == {LowerSeq[i] : i \in 1..26}

AsciiLetters == UpperLetters \cup LowerLetters

\* A letter outside ASCII (one rune), as unicode.IsLetter accepts it.
NonAsciiLetters == {"U+00E9"}

\* unicode.IsSpace / strings.TrimSpace white space.
WhiteSpace == {" ", "\t"}

DigitVal(c) ==
    CASE c = "0" -> 0 [] c = "1" -> 1 [] c = "2" -> 2 [] c = "3" -> 3
      [] c = "4" -> 4 [] c = "5" -> 5 [] c = "6" -> 6 [] c = "7" -> 7
      [] c = "8" -> 8 [] c = "9" -> 9

ToLowerChar(c) ==
    IF c \in UpperLetters
    THEN LowerSeq[CHOOSE i \in 1..26 : UpperSeq[i] = c]
    ELSE c

\* strings.ToLower
ToLower(s) == [i \in 1..Len(s) |-> ToLowerChar(s[i])]

\* strings.EqualFold
EqualFold(s, t) == ToLower(s) = ToLower(t)

RECURSIVE TrimLeft(_, _)
TrimLeft(s, cut) ==
    IF s # <<>> /\ Head(s) \in cut THEN TrimLeft(Tail(s), cut) ELSE s

RECURSIVE TrimRight(_, _)
TrimRight(s, cut) ==
    IF s # <<>> /\ s[Len(s)] \in cut
    THEN TrimRight(SubSeq(s, 1, Len(s) - 1), cut)
    ELSE s

\* strings.Trim(s, cutset)
Trim(s, cut) == TrimRight(TrimLeft(s, cut), cut)

\* strings.TrimSpace
TrimSpace(s) == Trim(s, WhiteSpace)

\* strings.ReplaceAll(s, old, new) for a one-character old: s itself when
\* old does not occur in it.
RECURSIVE ReplaceAll(_, _, _)
ReplaceAll(s, old, new) ==
    IF \A i \in 1..Len(s) : s[i] # old THEN s
    ELSE (IF Head(s) = old THEN new ELSE <<Head(s)>>)
             \o ReplaceAll(Tail(s), old, new)

\* ------------------------------------------------------ value classifiers

AllDigits(s) == \A i \in 1..Len(s) : s[i] \in Digits

RECURSIVE StripZeros(_)
StripZeros(s) ==
    IF s # <<>> /\ Head(s) = "0" THEN StripZeros(Tail(s)) ELSE s

\* Lexicographic s <= t for digit strings of the same length.
RECURSIVE DigitsLeq(_, _)
DigitsLeq(s, t) ==
    IF s = <<>> THEN TRUE
    ELSE IF DigitVal(Head(s)) < DigitVal(Head(t)) THEN TRUE
    ELSE IF DigitVal(Head(s)) > DigitVal(Head(t)) THEN FALSE
    ELSE DigitsLeq(Tail(s), Tail(t))

MaxInt64Digits ==
    <<"9", "2", "2", "3", "3", "7", "2", "0", "3", "6",
      "8", "5", "4", "7", "7", "5", "8", "0", "7">>

MinInt64Digits ==
    <<"9", "2", "2", "3", "3", "7", "2", "0", "3", "6",
      "8", "5", "4", "7", "7", "5", "8", "0", "8">>

\* The magnitude d (digits) fits the signed 64-bit range.
InInt64Range(d, negative) ==
    LET m == StripZeros(d) IN
        \/ Len(m) < 19
        \/ /\ Len(m) = 19
           /\ DigitsLeq(m, IF negative THEN MinInt64Digits ELSE MaxInt64Digits)

\* strconv.ParseInt(s, 10, 64) succeeds.
isInteger(s) ==
    /\ s # <<>>
    /\ LET signed == Head(s) \in {"+", "-"}
           d == IF signed THEN Tail(s) ELSE s
       IN  /\ d # <<>>
           /\ AllDigits(d)
           /\ InInt64Range(d, Head(s) = "-")

\* The part of s after an optional sign.
Unsigned(s) == IF s # <<>> /\ Head(s) \in {"+", "-"} THEN Tail(s) ELSE s

\* strconv's special(): "inf", "infinity" (optionally signed), "nan"
\* (unsigned), in any letter case.
IsSpecialFloat(s) ==
    \/ ToLower(Unsigned(s)) \in {<<"i", "n", "f">>,
                                 <<"i", "n", "f", "i", "n", "i", "t", "y">>}
    \/ ToLower(s) = <<"n", "a", "n">>

\* Index of the first exponent character, or 0.
ExpIndex(s) ==
    IF \E i \in 1..Len(s) : s[i] \in {"e", "E"}
    THEN CHOOSE i \in 1..Len(s) :
             /\ s[i] \in {"e", "E"}
             /\ \A j \in 1..(i - 1) : s[j] \notin {"e", "E"}
    ELSE 0

\* A decimal mantissa: digits with at most one point and at least one digit.
IsMantissa(m) ==
    /\ \A i \in 1..Len(m) : m[i] \in Digits \cup {"."}
    /\ Cardinality({i \in 1..Len(m) : m[i] = "."}) <= 1
    /\ \E i \in 1..Len(m) : m[i] \in Digits

\* A decimal exponent after the e: an optional sign and at least one digit.
IsExponent(x) == Unsigned(x) # <<>> /\ AllDigits(Unsigned(x))

\* strconv.ParseFloat(s, 64) succeeds, for the decimal syntax (readFloat,
\* base 10) and the special values; the hexadecimal form, digit-separating
\* underscores and out-of-range magnitudes are outside the inputs modelled.
isDecimal(s) ==
    \/ IsSpecialFloat(s)
    \/ LET u == Unsigned(s)
           e == ExpIndex(u)
       IN  IF e = 0 THEN IsMantissa(u)
           ELSE /\ IsMantissa(SubSeq(u, 1, e - 1))
                /\ IsExponent(SubSeq(u, e + 1, Len(u)))

\* One anchored pattern of isDate: "d" stands for \d, any other character
\* for itself.
PatternMatch(p, s) ==
    /\ Len(p) = Len(s)
    /\ \A i \in 1..Len(p) :
           IF p[i] = "d" THEN s[i] \in Digits ELSE s[i] = p[i]

PatYMD == <<"d", "d", "d", "d", "-", "d", "d", "-", "d", "d">>

PatMDY == <<"d", "d", "/", "d", "d", "/", "d", "d", "d", "d">>

PatHMS == <<"d", "d", ":", "d", "d", ":", "d", "d">>

DatePatterns ==
    { PatYMD,
      PatMDY,
      PatYMD \o <<" ">> \o PatHMS,
      PatMDY \o <<" ">> \o PatHMS,
      PatYMD \o <<"T">> \o PatHMS,
      PatYMD \o <<"T">> \o PatHMS \o <<"Z">> }

isDate(s) == \E p \in DatePatterns : PatternMatch(p, s)

\* ------------------------------------------------------------ type strings

\* A literal type string.
Lit(s) == [kind |-> s, n |-> 0]

\* fmt.Sprintf("VARCHAR(%d)", n)
VARCHAR(n) == [kind |-> "VARCHAR", n |-> n]

\* strings.HasPrefix(t, "VARCHAR")
HasPrefixVARCHAR(t) == t.kind = "VARCHAR"

\* extractVarcharLength: the n of "VARCHAR(n)".
extractVarcharLength(t) == t.n

\* maxSampleSize of the first variant's sampling loop.
MainMaxSampleSize == 1000

\* The largest VARCHAR capacity the first variant emits.
MaxVarchar == 65535

\* ------------------------------------------------------ sanitizeColumnName

\* sanitizeRegex.ReplaceAllString(s, "_"): every maximal run of characters
\* outside [a-zA-Z0-9_] becomes one underscore.
NameChars == AsciiLetters \cup Digits \cup {"_"}

RECURSIVE ReplaceRuns(_, _)
ReplaceRuns(s, inRun) ==
    IF s = <<>> THEN <<>>
    ELSE IF Head(s) \in NameChars THEN <<Head(s)>> \o ReplaceRuns(Tail(s), FALSE)
    ELSE IF inRun THEN ReplaceRuns(Tail(s), TRUE)
    ELSE <<"_">> \o ReplaceRuns(Tail(s), TRUE)

\* leadingRegex.MatchString(s): ^[^a-zA-Z_]
LeadingMatch(s) == s # <<>> /\ Head(s) \notin (AsciiLetters \cup {"_"})

\* sanitizeColumnName of part_002 and part_001.
sanitizeRegexName(name) ==
    LET cleaned == Trim(ReplaceRuns(TrimSpace(name), FALSE), {"_"})
    IN  ToLower(IF LeadingMatch(cleaned) THEN <<"_">> \o cleaned ELSE cleaned)

\* The rune filter of main.go's sanitizeColumnName.
RECURSIVE FilterRunes(_)
FilterRunes(s) ==
    IF s = <<>> THEN <<>>
    ELSE LET r == Head(s) IN
         (IF r \in AsciiLetters \cup NonAsciiLetters \cup Digits \cup {"_"}
          THEN <<r>>
          ELSE IF r \in WhiteSpace THEN <<"_">> ELSE <<>>)
             \o FilterRunes(Tail(s))

\* sanitizeColumnName of main.go.
sanitizeMainName(name) ==
    LET result == FilterRunes(TrimSpace(name))
    IN  IF result = <<>> THEN <<"c", "o", "l", "u", "m", "n">>
        ELSE ToLower(IF Head(result) \in Digits
                     THEN <<"c", "o", "l", "_">> \o result
                     ELSE result)

sanitizeColumnName(variant, name) ==
    IF variant = "main" THEN sanitizeMainName(name) ELSE sanitizeRegexName(name)

\* fmt.Sprintf("column_%d", i) for a one-digit i.
DigitChar(i) == CHOOSE c \in Digits : DigitVal(c) = i

SyntheticName(i) == <<"c", "o", "l", "u", "m", "n", "_", DigitChar(i)>>

\* --------------------------------------------------------- value classifier

\* ((length/50)+1)*50
RoundUp50(length) == ((length \div 50) + 1) * 50

\* Mutant: the floating-point check ahead of the integer check.
refineTypeDecimalFirst(cfg, currentType, value) ==
    IF isDecimal(value) THEN Lit("DECIMAL(20,6)")
    ELSE IF isInteger(value) THEN Lit("BIGINT")
    ELSE IF isDate(value)
         THEN (IF Len(value) > 10 THEN Lit("DATETIME") ELSE Lit("DATE"))
    ELSE IF Len(value) > cfg.TextThreshold THEN Lit("TEXT")
    ELSE IF Len(value) > cfg.VarcharLength THEN VARCHAR(RoundUp50(Len(value)))
    ELSE VARCHAR(cfg.VarcharLength)

\* refineType of part_002 and part_001: the current type is not consulted.
refineType(cfg, currentType, value) ==
    IF isInteger(value) THEN Lit("BIGINT")
    ELSE IF isDecimal(value) THEN Lit("DECIMAL(20,6)")
    ELSE IF isDate(value)
         THEN (IF Len(value) > 10 THEN Lit("DATETIME") ELSE Lit("DATE"))
    ELSE IF Len(value) > cfg.TextThreshold THEN Lit("TEXT")
    ELSE IF Len(value) > cfg.VarcharLength THEN VARCHAR(RoundUp50(Len(value)))
    ELSE VARCHAR(cfg.VarcharLength)

\* The widening of a text value in main.go, once the TEXT threshold and the
\* capacity have been compared.
WidenText(cfg, length) ==
    IF RoundUp50(length) > MaxVarchar THEN Lit("TEXT")
    ELSE VARCHAR(RoundUp50(length))

\* The type detection inlined in main.go's determineColumnTypes.
refineTypeMain(cfg, currentType, value) ==
    IF isInteger(value)
    THEN (IF currentType = VARCHAR(255) THEN Lit("INT") ELSE currentType)
    ELSE IF isDecimal(value)
    THEN (IF currentType = VARCHAR(255) \/ currentType = Lit("INT")
          THEN Lit("DECIMAL(20,6)") ELSE currentType)
    ELSE IF isDate(value)
    THEN (IF Len(value) > 10 THEN Lit("DATETIME") ELSE Lit("DATE"))
    ELSE IF currentType = VARCHAR(255)
    THEN (IF Len(value) > cfg.TextThreshold THEN Lit("TEXT")
          ELSE IF Len(value) > cfg.VarcharLength THEN WidenText(cfg, Len(value))
          ELSE currentType)
    ELSE IF HasPrefixVARCHAR(currentType)
    THEN (IF Len(value) > extractVarcharLength(currentType)
          THEN (IF Len(value) > cfg.TextThreshold THEN Lit("TEXT")
                ELSE WidenText(cfg, Len(value)))
          ELSE currentType)
    ELSE currentType

\* The type of a non-forced, non-skipped column before sampling.
BaseType(variant) == IF variant = "main" THEN VARCHAR(255) ELSE Lit("TEXT")

\* value == "" || strings.EqualFold(value, NullString), on the trimmed value.
IsNullValue(cfg, trimmed) == trimmed = <<>> \/ EqualFold(trimmed, cfg.NullString)

\* One sampled field of a column that is neither skipped nor forced.
RefineField(variant, cfg, currentType, field) ==
    LET value == TrimSpace(field) IN
        IF IsNullValue(cfg, value) THEN currentType
        ELSE IF variant = "main" THEN refineTypeMain(cfg, currentType, value)
        ELSE refineType(cfg, currentType, value)

\* ---------------------------------------------------------- row serializer

NullLiteral == <<"N", "U", "L", "L">>

\* Mutant: the quote escaped with a backslash, which the second replacement
\* then doubles.
EscapeBackslashQuote(value) ==
    ReplaceAll(ReplaceAll(value, "'", <<"\\", "'">>), "\\", <<"\\", "\\">>)

\* The two strings.ReplaceAll calls of generateInsertStatements.
Escape(value) ==
    ReplaceAll(ReplaceAll(value, "'", <<"'", "'">>), "\\", <<"\\", "\\">>)

\* columnTypes[i] == "INT" || columnTypes[i] == "DECIMAL(20,6)"
IsUnquotedType(t) == t = Lit("INT") \/ t = Lit("DECIMAL(20,6)")

\* The literal of one field of a non-skipped column.
SerializeField(cfg, t, field) ==
    LET value == TrimSpace(field) IN
        IF IsNullValue(cfg, value) THEN NullLiteral
        ELSE IF IsUnquotedType(t) /\ isDecimal(value) THEN Escape(value)
        ELSE <<"'">> \o Escape(value) \o <<"'">>

\* escapeSQLValue (second implementation; the NULL literal is fixed).
escapeSQLValue(value) ==
    LET trimmed == TrimSpace(value) IN
        IF trimmed = <<>> \/ EqualFold(trimmed, NullLiteral) THEN NullLiteral
        ELSE <<"'">> \o Escape(trimmed) \o <<"'">>

\* ------------------------------------------------------ column type resolver

\* _, ok := c.config.ForceTypes[name]
IsForced(cfg, name) == name \in DOMAIN cfg.ForceTypes

\* The initialisation loop of determineColumnTypes.
InitColumnTypes(variant, cfg, hdrs) ==
    [i \in 1..Len(hdrs) |->
        IF IsForced(cfg, hdrs[i]) THEN cfg.ForceTypes[hdrs[i]]
        ELSE IF hdrs[i] \in cfg.SkipColumns THEN Lit("SKIP")
        ELSE BaseType(variant)]

\* allForced: no type lacks the VARCHAR prefix and differs from SKIP.
allForced(types) ==
    \A i \in 1..Len(types) :
        HasPrefixVARCHAR(types[i]) \/ types[i] = Lit("SKIP")

\* Mutant: the sampling loop without its forced-type test.
RefineRecordForcedToo(variant, cfg, hdrs, types, record) ==
    [i \in 1..Len(types) |->
        IF types[i] = Lit("SKIP") THEN types[i]
        ELSE RefineField(variant, cfg, types[i], record[i])]

\* The per-field loop of determineColumnTypes over one sampled record.
RefineRecord(variant, cfg, hdrs, types, record) ==
    [i \in 1..Len(types) |->
        IF types[i] = Lit("SKIP") THEN types[i]
        ELSE IF IsForced(cfg, hdrs[i]) THEN types[i]
        ELSE RefineField(variant, cfg, types[i], record[i])]

\* sampleCount >= MaxSampleSize
SampleLimit(variant, cfg) ==
    IF variant = "main" THEN MainMaxSampleSize ELSE cfg.MaxSampleSize

\* ------------------------------------------------------- statement emitter

\* The indices i with types[i] != "SKIP", in header order, from index i on.
RECURSIVE KeptFrom(_, _)
KeptFrom(types, i) ==
    IF i > Len(types) THEN <<>>
    ELSE (IF types[i] = Lit("SKIP") THEN <<>> ELSE <<i>>) \o KeptFrom(types, i + 1)

\* A column list that names every header, the skipped ones too.
formatInsertColumnsAll(hdrs, types) == hdrs

\* formatInsertColumns
formatInsertColumns(hdrs, types) ==
    LET kept == KeptFrom(types, 1) IN [k \in 1..Len(kept) |-> hdrs[kept[k]]]

\* The column definitions and the PRIMARY KEY clause of generateCreateTable.
generateCreateTable(cfg, hdrs, types) ==
    LET kept == KeptFrom(types, 1) IN
        [ empty      |-> FALSE,
          columns    |-> [k \in 1..Len(kept) |->
                             [col |-> kept[k], name |-> hdrs[kept[k]],
                              type |-> types[kept[k]]]],
          primaryKey |-> cfg.PrimaryKeys ]

\* The empty string returned for the DDL on an error.
NoDDL == [empty |-> TRUE, columns |-> <<>>, primaryKey |-> <<>>]

\* Mutant: the values loop without its SKIP test.
SerializeRecordAll(cfg, types, record) ==
    [k \in 1..Len(types) |->
        [col |-> k, text |-> SerializeField(cfg, types[k], record[k])]]

\* The values loop of generateInsertStatements: one literal per column whose
\* type is not SKIP.  col records the column a literal was computed from.
SerializeRecord(cfg, types, record) ==
    LET kept == KeptFrom(types, 1) IN
        [k \in 1..Len(kept) |->
            [col  |-> kept[k],
             text |-> SerializeField(cfg, types[kept[k]], record[kept[k]])]]

\* The "skip empty rows" test of part_001 on record[0] and record[1].
IsNullRow(cfg, record) ==
    /\ IsNullValue(cfg, TrimSpace(record[1]))
    /\ Len(record) >= 2 => IsNullValue(cfg, TrimSpace(record[2]))

\* Mutant: the flush one row late.
FlushDueLate(cfg, rows) == Len(rows) > cfg.BatchSize

\* len(batchRows) >= BatchSize
FlushDue(cfg, rows) == Len(rows) >= cfg.BatchSize

\* formatBatchInsert, and the single-row INSERT with rows of one tuple.
formatBatchInsert(hdrs, types, rows) ==
    [columns |-> formatInsertColumns(hdrs, types), rows |-> rows]

\* ------------------------------------------------------------------- state

VARIABLES
    impl,         \* the source variant: "main", "p2" (part_002), "p1" (part_001)
    config,       \* Config
    file,         \* the records of the input file, in order
    stdin,        \* the records on standard input
    fault,        \* the failure the file system or the reader reports
    pc,           \* position in Convert
    headers,      \* sanitized column names
    columnTypes,  \* one type per column
    readPos,      \* next record of the reader Convert opened
    sampleCount,  \* rows counted by the sampling loop
    warnings,     \* rows skipped with a warning
    createTable,  \* DDL built by generateCreateTable
    insertPos,    \* next record of the reader generateInsertStatements opened
    batchRows,    \* buffered row tuples
    sb,           \* INSERT statements written so far
    rowCount,     \* rows serialized
    result,       \* what Convert returned: [ddl, dml, err]
    arg,          \* argument of a pure function under test
    ret           \* its result

vars == <<impl, config, file, stdin, fault, pc, headers, columnTypes,
          readPos, sampleCount, warnings, createTable, insertPos, batchRows,
          sb, rowCount, result, arg, ret>>

Variants == {"main", "p2", "p1"}

NoResult == [ddl |-> NoDDL, dml |-> <<>>, err |-> "pending"]

\* Mutant: the error returned together with the text built so far.
FailurePartial(what) == [ddl |-> createTable, dml |-> sb, err |-> what]

\* fmt.Errorf(...): Convert returns "", "", err.
Failure(what) == [ddl |-> NoDDL, dml |-> <<>>, err |-> what]

\* encoding/csv with FieldsPerRecord = 0: the first record a reader reads
\* fixes the field count, and a later record of another length is returned
\* with ErrFieldCount.  Both readers read the first record of the file first.
ErrFieldCount(record) == Len(record) # Len(file[1])

\* ----------------------------------------------------------------- actions

\* No failure.
NoFault == [at |-> 0, kind |-> "none"]

\* What the read of record k of the file reports besides a record or io.EOF:
\* "parse" is a csv.ParseError of a malformed record, after which the reader
\* stands behind that record; "io" is an error of the underlying file read,
\* which every later read of the same position reports again.
FaultAt(k) == IF fault.at = k THEN fault.kind ELSE "none"

\* The records the reader handed to determineColumnTypes returns.  main.go
\* without a header row replaces the reader by one over the first row
\* followed by os.Stdin; everywhere else it is the reader over the file.
StdinSampled == impl = "main" /\ ~config.HasHeader

SampleSource == IF StdinSampled THEN <<file[1]>> \o stdin ELSE file

SampleFault(k) == IF StdinSampled THEN "none" ELSE FaultAt(k)

\* Convert up to determineColumnTypes: os.Open, and the header row read and
\* sanitized (part_002 and part_001 name an empty result column_<i>) or,
\* with no header row, the first row read and the columns named column_<i>.
\* The reader part_002 and part_001 open in readHeaders is assigned to the
\* parameter only, so the caller's reader stays behind the first row;
\* main.go samples from the first row on.
ReadHeaders ==
    /\ pc = "start"
    /\ IF fault.kind = "open"
       THEN /\ pc' = "done"
            /\ result' = Failure("error opening file")
            /\ UNCHANGED <<headers, readPos>>
       ELSE IF file = <<>>
       THEN /\ pc' = "done"
            /\ result' = Failure("error reading headers")
            /\ UNCHANGED <<headers, readPos>>
       ELSE /\ headers' =
                [i \in 1..Len(file[1]) |->
                    IF config.HasHeader
                    THEN LET h == sanitizeColumnName(impl, file[1][i]) IN
                             IF impl # "main" /\ h = <<>>
                             THEN SyntheticName(i) ELSE h
                    ELSE SyntheticName(i)]
            /\ readPos' = IF StdinSampled THEN 1 ELSE 2
            /\ pc' = "types"
            /\ UNCHANGED result
    /\ UNCHANGED <<impl, config, file, stdin, fault, columnTypes,
                   sampleCount, warnings, createTable, insertPos, batchRows,
                   sb, rowCount, arg, ret>>

\* determineColumnTypes up to the sampling loop: initial types, and the
\* early return when allForced.
StartTypes ==
    /\ pc = "types"
    /\ columnTypes' = InitColumnTypes(impl, config, headers)
    /\ pc' = IF allForced(columnTypes') THEN "create" ELSE "sample"
    /\ UNCHANGED <<impl, config, file, stdin, fault, headers, readPos,
                   sampleCount, warnings, createTable, insertPos, batchRows,
                   sb, rowCount, result, arg, ret>>

\* One iteration of the sampling loop on what reader.Read returns that is
\* not io.EOF.  part_001 answers every read error with continue; after an
\* error of the file read the next Read fails at the same position.
SampleRow ==
    /\ pc = "sample"
    /\ readPos <= Len(SampleSource) \/ SampleFault(readPos) # "none"
    /\ IF SampleFault(readPos) = "io"
       THEN IF impl = "p1"
            THEN UNCHANGED <<pc, columnTypes, sampleCount, result, warnings,
                             readPos>>
            ELSE /\ pc' = "done"
                 /\ result' = Failure("error determining column types")
                 /\ UNCHANGED <<columnTypes, sampleCount, warnings, readPos>>
       ELSE
        /\ readPos' = readPos + 1
        /\ LET record == SampleSource[readPos] IN
            IF SampleFault(readPos) = "parse" \/ ErrFieldCount(record)
            THEN IF impl = "p1"
                 THEN /\ warnings' = warnings + 1
                      /\ UNCHANGED <<pc, columnTypes, sampleCount, result>>
                 ELSE /\ pc' = "done"
                      /\ result' = Failure("error determining column types")
                      /\ UNCHANGED <<columnTypes, sampleCount, warnings>>
            ELSE IF Len(record) # Len(headers)
            THEN IF impl = "main"
                 THEN /\ pc' = "done"
                      /\ result' = Failure("error determining column types")
                      /\ UNCHANGED <<columnTypes, sampleCount, warnings>>
                 ELSE /\ warnings' = warnings + 1
                      /\ UNCHANGED <<pc, columnTypes, sampleCount, result>>
            ELSE /\ columnTypes' =
                        RefineRecord(impl, config, headers, columnTypes, record)
                 /\ sampleCount' = sampleCount + 1
                 /\ pc' = IF sampleCount' >= SampleLimit(impl, config)
                          THEN "create" ELSE "sample"
                 /\ UNCHANGED <<warnings, result>>
    /\ UNCHANGED <<impl, config, file, stdin, fault, headers, createTable,
                   insertPos, batchRows, sb, rowCount, arg, ret>>

\* The sampling loop at io.EOF.
SampleEOF ==
    /\ pc = "sample"
    /\ readPos > Len(SampleSource)
    /\ SampleFault(readPos) = "none"
    /\ pc' = "create"
    /\ UNCHANGED <<impl, config, file, stdin, fault, headers, columnTypes,
                   readPos, sampleCount, warnings, createTable, insertPos,
                   batchRows, sb, rowCount, result, arg, ret>>

\* Convert's call of generateCreateTable.
GenerateCreateTable ==
    /\ pc = "create"
    /\ createTable' = generateCreateTable(config, headers, columnTypes)
    /\ pc' = "seek"
    /\ UNCHANGED <<impl, config, file, stdin, fault, headers, columnTypes,
                   readPos, sampleCount, warnings, insertPos, batchRows, sb,
                   rowCount, result, arg, ret>>

\* generateInsertStatements up to its loop: seek to the start of the file,
\* a new reader, and the header row, when there is one, read and dropped.
BeginInsert ==
    /\ pc = "seek"
    /\ insertPos' = IF config.HasHeader THEN 2 ELSE 1
    /\ batchRows' = <<>>
    /\ sb' = <<>>
    /\ rowCount' = 0
    /\ pc' = "insert"
    /\ UNCHANGED <<impl, config, file, stdin, fault, headers, columnTypes,
                   readPos, sampleCount, warnings, createTable, result, arg,
                   ret>>

\* One iteration of the serialization loop on what reader.Read returns that
\* is not io.EOF.
InsertRow ==
    /\ pc = "insert"
    /\ insertPos <= Len(file) \/ FaultAt(insertPos) # "none"
    /\ IF FaultAt(insertPos) = "io"
       THEN IF impl = "p1"
            THEN UNCHANGED <<pc, batchRows, sb, rowCount, result, warnings,
                             insertPos>>
            ELSE /\ pc' = "done"
                 /\ result' = Failure("error generating insert statements")
                 /\ UNCHANGED <<batchRows, sb, rowCount, warnings, insertPos>>
       ELSE
        /\ insertPos' = insertPos + 1
        /\ LET record == file[insertPos]
               tuple  == [row    |-> insertPos,
                          values |-> SerializeRecord(config, columnTypes, record)]
               batch  == Append(batchRows, tuple)
           IN
            IF \/ FaultAt(insertPos) = "parse"
               \/ ErrFieldCount(record)
               \/ Len(record) # Len(headers)
            THEN IF impl = "p1"
                 THEN /\ warnings' = warnings + 1
                      /\ UNCHANGED <<pc, batchRows, sb, rowCount, result>>
                 ELSE /\ pc' = "done"
                      /\ result' = Failure("error generating insert statements")
                      /\ UNCHANGED <<batchRows, sb, rowCount, warnings>>
            ELSE IF impl = "p1" /\ IsNullRow(config, record)
            THEN UNCHANGED <<pc, batchRows, sb, rowCount, result, warnings>>
            ELSE /\ IF config.BatchInsert
                    THEN IF FlushDue(config, batch)
                         THEN /\ sb' = Append(sb, formatBatchInsert(headers,
                                                      columnTypes, batch))
                              /\ batchRows' = <<>>
                         ELSE /\ batchRows' = batch
                              /\ UNCHANGED sb
                    ELSE /\ sb' = Append(sb, formatBatchInsert(headers,
                                                 columnTypes, <<tuple>>))
                         /\ UNCHANGED batchRows
                 /\ rowCount' = rowCount + 1
                 /\ UNCHANGED <<pc, result, warnings>>
    /\ UNCHANGED <<impl, config, file, stdin, fault, headers, columnTypes,
                   readPos, sampleCount, createTable, arg, ret>>

\* The serialization loop at io.EOF: the remaining batch is written and
\* Convert returns the DDL and the DML.
InsertEOF ==
    /\ pc = "insert"
    /\ insertPos > Len(file)
    /\ FaultAt(insertPos) = "none"
    /\ sb' = IF Len(batchRows) > 0
             THEN Append(sb, formatBatchInsert(headers, columnTypes, batchRows))
             ELSE sb
    /\ result' = [ddl |-> createTable, dml |-> sb', err |-> "nil"]
    /\ pc' = "done"
    /\ UNCHANGED <<impl, config, file, stdin, fault, headers, columnTypes,
                   readPos, sampleCount, warnings, createTable, insertPos,
                   batchRows, rowCount, arg, ret>>

Next ==
    \/ ReadHeaders
    \/ StartTypes
    \/ SampleRow
    \/ SampleEOF
    \/ GenerateCreateTable
    \/ BeginInsert
    \/ InsertRow
    \/ InsertEOF

\* ------------------------------------------------------------------ inputs

NameA == <<"i", "d">>

NameB == <<"n", "_", "1">>

\* The header row: sanitizes to NameA, NameB in every variant.
HeaderRow == << <<"I", "d", " ">>, <<"N", " ", "1">> >>

NullString == <<"N", "U", "L", "L">>

V1 == <<"1">>

V7 == <<"7">>

VDecimal == <<"2", ".", "5">>

VDate == <<"2", "0", "2", "4", "-", "0", "1", "-", "0", "5">>

VDateTime ==
    <<"2", "0", "2", "4", "-", "0", "1", "-", "0", "6", " ",
      "1", "0", ":", "0", "0", ":", "0", "0">>

VShort == <<"a", "b">>

\* A text longer than the default VarcharLength (255).
VMid == [i \in 1..300 |-> "a"]

\* A text longer than the default TextThreshold (500).
VLong == [i \in 1..600 |-> "a"]

VQuote == <<"q", "'">>

VNullPadded == <<" ", "n", "u", "l", "l", " ">>

\* All sequences over S of length at most n.
SeqsUpTo(S, n) == UNION {[1..k -> S] : k \in 0..n}

\* (ForceTypes, SkipColumns) of the configurations explored.
ColumnOptions ==
    { [force |-> <<>>, skip |-> {}],
      [force |-> (NameA :> Lit("INT AUTO_INCREMENT")), skip |-> {}],
      [force |-> <<>>, skip |-> {NameA}],
      [force |-> (NameA :> Lit("INT AUTO_INCREMENT")), skip |-> {NameA}],
      [force |-> (NameA :> VARCHAR(10)), skip |-> {NameB}] }

\* (BatchInsert, BatchSize)
BatchOptions ==
    {[on |-> FALSE, size |-> 1]} \cup {[on |-> TRUE, size |-> b] : b \in 1..MaxBatch}

MakeConfig(col, batch, sample, vl, tt) ==
    [ HasHeader     |-> TRUE,
      VarcharLength |-> vl,
      TextThreshold |-> tt,
      BatchInsert   |-> batch.on,
      BatchSize     |-> batch.size,
      NullString    |-> NullString,
      ForceTypes    |-> col.force,
      SkipColumns   |-> col.skip,
      PrimaryKeys   |-> <<>>,
      MaxSampleSize |-> sample ]

Configs ==
    { MakeConfig(col, batch, sample, 255, 500) :
        col \in ColumnOptions, batch \in BatchOptions, sample \in 1..MaxSample }

\* Data rows: integers, an all-NULL row, text and a decimal, a quote in a
\* numeric column, and a row with one field too few.
DataRows ==
    { <<V1, V7>>, <<<<>>, VNullPadded>>, <<<<"x">>, VDecimal>>,
      <<V7, VQuote>>, <<V1>> }

Files ==
    {<<>>} \cup {<<HeaderRow>> \o rows : rows \in SeqsUpTo(DataRows, MaxRows)}

InitInput(variants, configs, files, stdins, faults) ==
    /\ impl \in variants
    /\ config \in configs
    /\ file \in files
    /\ stdin \in stdins
    /\ fault \in faults
    /\ pc = "start"
    /\ headers = <<>>
    /\ columnTypes = <<>>
    /\ readPos = 1
    /\ sampleCount = 0
    /\ warnings = 0
    /\ createTable = NoDDL
    /\ insertPos = 1
    /\ batchRows = <<>>
    /\ sb = <<>>
    /\ rowCount = 0
    /\ result = NoResult

\* An input with a header row, nothing on standard input and no failure.
InitConvert(variants, configs, files) ==
    InitInput(variants, configs, files, {<<>>}, {NoFault})

InitWith(variants, configs, files) ==
    /\ InitConvert(variants, configs, files)
    /\ arg = <<>>
    /\ ret = <<>>

Init == InitWith(Variants, Configs, Files)

Spec == Init /\ [][Next]_vars

\* -------------------------------------------- inputs of the typing checks

\* MaxSampleSize of DefaultConfig.
DefaultMaxSampleSize == 1000

\* Values of the inferred column: an integer, a decimal, a date, a
\* date-time, texts below VarcharLength, between it and TextThreshold and
\* above TextThreshold, and the empty field.
TypeValues == {V7, VDecimal, VDate, VDateTime, VShort, VMid, VLong, <<>>}

TypeRows == {<<V1, v>> : v \in TypeValues}

TypeFiles == {<<HeaderRow>> \o rows : rows \in SeqsUpTo(TypeRows, MaxRows)}

TypeConfigs ==
    { MakeConfig(col, [on |-> TRUE, size |-> MaxBatch], sample, 255, 500) :
        col \in { [force |-> <<>>, skip |-> {}],
                  [force |-> (NameA :> Lit("INT AUTO_INCREMENT")), skip |-> {}] },
        sample \in {MaxSample, DefaultMaxSampleSize} }

InitTypes == InitWith(Variants, TypeConfigs, TypeFiles)

SpecTypes == InitTypes /\ [][Next]_vars

\* ------------------------------------------------------------------ claims

\* Column i is neither forced nor skipped.
Inferred(i) ==
    /\ headers[i] \notin DOMAIN config.ForceTypes
    /\ headers[i] \notin config.SkipColumns

\* Position of a type on the ladder VARCHAR(n) < wider VARCHAR < TEXT <
\* integer < DECIMAL < date/time.
LadderRank(t) ==
    IF t.kind = "VARCHAR" THEN t.n
    ELSE IF t = Lit("TEXT") THEN MaxVarchar + 1
    ELSE IF t \in {Lit("INT"), Lit("BIGINT")} THEN MaxVarchar + 2
    ELSE IF t = Lit("DECIMAL(20,6)") THEN MaxVarchar + 3
    ELSE MaxVarchar + 4

\* C1: during sampling the type of a column that is neither forced nor
\* skipped never moves down the ladder: every sampling step leaves it the
\* same or wider.
C1_TypesOnlyWiden ==
    [][pc = "sample" =>
          \A i \in 1..Len(columnTypes) :
              Inferred(i) =>
                  LadderRank(columnTypes'[i]) >= LadderRank(columnTypes[i])]_vars

\* The sampling loop run over rows, from types.
RECURSIVE ResolveTypes(_, _, _, _, _)
ResolveTypes(variant, cfg, hdrs, types, rows) ==
    IF rows = <<>> THEN types
    ELSE ResolveTypes(variant, cfg, hdrs,
                      RefineRecord(variant, cfg, hdrs, types, Head(rows)),
                      Tail(rows))

\* Sampling ran to the end of the input and counted every data row.
SampledWholeFile ==
    /\ pc = "create"
    /\ ~allForced(InitColumnTypes(impl, config, headers))
    /\ sampleCount = Len(file) - 1

\* C2: when every data row was sampled, the resolved types are those any
\* permutation of the same rows resolves to.
C2_OrderIndependent ==
    SampledWholeFile =>
        \A f \in Permutations(1..(Len(file) - 1)) :
            ResolveTypes(impl, config, headers,
                         InitColumnTypes(impl, config, headers),
                         [k \in 1..(Len(file) - 1) |-> file[1 + f[k]]])
                = columnTypes

\* C3: a column whose sanitized name is a key of ForceTypes has exactly the
\* forced type whenever the types exist, and the DDL defines it with that
\* type.
C3_ForcedTypeKept ==
    \A i \in 1..Len(columnTypes) :
        headers[i] \in DOMAIN config.ForceTypes =>
            /\ columnTypes[i] = config.ForceTypes[headers[i]]
            /\ result.err = "nil" =>
                   \E k \in 1..Len(result.ddl.columns) :
                       /\ result.ddl.columns[k].col = i
                       /\ result.ddl.columns[k].type = config.ForceTypes[headers[i]]

\* C3 witness: a conversion that sampled an integer in a forced column ended
\* without error.
C3_Witness ==
    /\ pc = "done"
    /\ result.err = "nil"
    /\ sampleCount >= 1
    /\ headers[1] \in DOMAIN config.ForceTypes
    /\ file[2][1] = V1

\* C9: a column whose two sampled values are a date and a date-time, in
\* either order, resolves to DATETIME.
C9_DateTimeWins ==
    ( /\ SampledWholeFile
      /\ Len(file) = 3
      /\ Inferred(2)
      /\ {file[2][2], file[3][2]} = {VDate, VDateTime} )
        => columnTypes[2] = Lit("DATETIME")

\* Column i has no definition in the DDL built so far, is in no INSERT
\* column list, and no value tuple, written or buffered, holds a literal
\* computed from it.
ColumnAbsent(i) ==
    /\ \A k \in 1..Len(createTable.columns) : createTable.columns[k].col # i
    /\ \A s \in 1..Len(sb) :
           /\ \A c \in 1..Len(sb[s].columns) : sb[s].columns[c] # headers[i]
           /\ \A j \in 1..Len(sb[s].rows) :
                  \A v \in 1..Len(sb[s].rows[j].values) :
                      sb[s].rows[j].values[v].col # i
    /\ \A j \in 1..Len(batchRows) :
           \A v \in 1..Len(batchRows[j].values) : batchRows[j].values[v].col # i

\* C4 as claimed: every column whose name is in SkipColumns is absent from
\* the DDL, the INSERT column lists and the value tuples.
C4_SkipSetAbsent ==
    \A i \in 1..Len(headers) :
        headers[i] \in config.SkipColumns => ColumnAbsent(i)

\* C4 amended: every column whose name is in SkipColumns and is not a key
\* of ForceTypes is absent from the DDL, the INSERT column lists and the
\* value tuples.
C4_SkippedUnforcedAbsent ==
    \A i \in 1..Len(headers) :
        ( /\ headers[i] \in config.SkipColumns
          /\ headers[i] \notin DOMAIN config.ForceTypes ) => ColumnAbsent(i)

\* C4 witness: a conversion with a skipped, unforced column wrote an INSERT
\* statement and ended without error.
C4_Witness ==
    /\ pc = "done"
    /\ result.err = "nil"
    /\ Len(result.dml) >= 1
    /\ \E i \in 1..Len(headers) :
           /\ headers[i] \in config.SkipColumns
           /\ headers[i] \notin DOMAIN config.ForceTypes

\* C5: in batch mode the buffer never exceeds BatchSize, every statement
\* holds 1..BatchSize tuples and all but the last exactly BatchSize, and a
\* finished conversion wrote ceil(rowCount/BatchSize) statements holding
\* rowCount tuples.
C5_BatchBound ==
    config.BatchInsert =>
        /\ Len(batchRows) <= config.BatchSize
        /\ \A k \in 1..Len(sb) :
               /\ Len(sb[k].rows) >= 1
               /\ Len(sb[k].rows) <= config.BatchSize
               /\ k < Len(sb) => Len(sb[k].rows) = config.BatchSize
        /\ (pc = "done" /\ result.err = "nil") =>
               LET n == Len(result.dml) IN
                   /\ result.dml = sb
                   /\ n * config.BatchSize >= rowCount
                   /\ (n - 1) * config.BatchSize < rowCount
                   /\ n >= 1 => Len(result.dml[n].rows)
                                    = rowCount - (n - 1) * config.BatchSize

\* C5 witness: three rows at BatchSize 2 end as a full batch and a final
\* statement of one tuple.
C5_Witness ==
    /\ pc = "done"
    /\ result.err = "nil"
    /\ config.BatchInsert
    /\ config.BatchSize = 2
    /\ rowCount = 3
    /\ Len(result.dml) = 2
    /\ Len(result.dml[2].rows) = 1

\* Record r of the file has the header's field count and every field is,
\* once trimmed, empty or the NULL literal in any letter case.
AllNullRow(r) ==
    /\ Len(file[r]) = Len(headers)
    /\ \A i \in 1..Len(file[r]) :
           LET v == TrimSpace(file[r][i]) IN
               v = <<>> \/ ToLower(v) = ToLower(config.NullString)

\* C6: in a finished conversion every all-NULL data row has a value tuple in
\* the DML, and every literal of that tuple is the unquoted NULL.
C6_NullRowsSerialized ==
    (pc = "done" /\ result.err = "nil") =>
        \A r \in 2..Len(file) :
            AllNullRow(r) =>
                \E s \in 1..Len(result.dml) :
                    \E j \in 1..Len(result.dml[s].rows) :
                        LET t == result.dml[s].rows[j] IN
                            /\ t.row = r
                            /\ \A v \in 1..Len(t.values) :
                                   t.values[v].text = NullLiteral

\* The tuples written to sb or waiting in batchRows.
TuplesSoFar ==
    UNION {{sb[s].rows[j] : j \in 1..Len(sb[s].rows)} : s \in 1..Len(sb)}
        \cup {batchRows[j] : j \in 1..Len(batchRows)}

\* The numeric types of the claim, among the types the inputs produce.
ClaimedNumeric(t) == t \in {Lit("INT"), Lit("BIGINT"), Lit("DECIMAL(20,6)")}

IsQuoted(text) ==
    Len(text) >= 2 /\ Head(text) = "'" /\ text[Len(text)] = "'"

\* C7: a literal of a non-NULL field is unquoted exactly when its column's
\* type is numeric and the trimmed field parses as a floating-point number.
C7_UnquotedIffNumeric ==
    \A t \in TuplesSoFar :
        \A v \in 1..Len(t.values) :
            LET i   == t.values[v].col
                val == TrimSpace(file[t.row][i])
            IN  ~(val = <<>> \/ ToLower(val) = ToLower(config.NullString)) =>
                    ( ~IsQuoted(t.values[v].text)
                        <=> (ClaimedNumeric(columnTypes[i]) /\ isDecimal(val)) )

\* ------------------------------------------------- serializing one field

MaxValueLen == 3

EscapeAlphabet == {"'", "\\", " ", "a", "7"}

VOBrien == <<"O", "'", "B", "r", "i", "e", "n">>

EscapeFields == SeqsUpTo(EscapeAlphabet, MaxValueLen) \cup {VOBrien, NullString}

EscapeTypes == {VARCHAR(255), Lit("TEXT"), Lit("INT"), Lit("DECIMAL(20,6)")}

\* DefaultConfig with nothing forced and nothing skipped.
PlainConfig ==
    MakeConfig([force |-> <<>>, skip |-> {}], [on |-> FALSE, size |-> 1],
               MaxSample, 255, 500)

InitEscape ==
    /\ InitConvert({"p2"}, {PlainConfig}, {<<>>})
    /\ arg \in [field : EscapeFields, type : EscapeTypes]
    /\ ret = <<>>

\* One pass of the values loop of generateInsertStatements over one field.
CallSerializeField ==
    /\ pc = "start"
    /\ ret' = SerializeField(config, arg.type, arg.field)
    /\ pc' = "serialized"
    /\ UNCHANGED <<impl, config, file, stdin, fault, headers, columnTypes,
                   readPos, sampleCount, warnings, createTable, insertPos,
                   batchRows, sb, rowCount, result, arg>>

\* A call of escapeSQLValue.
CallEscapeSQLValue ==
    /\ pc = "start"
    /\ ret' = escapeSQLValue(arg.field)
    /\ pc' = "escaped"
    /\ UNCHANGED <<impl, config, file, stdin, fault, headers, columnTypes,
                   readPos, sampleCount, warnings, createTable, insertPos,
                   batchRows, sb, rowCount, result, arg>>

NextEscape ==
    \/ CallSerializeField
    \/ CallEscapeSQLValue

SpecEscape == InitEscape /\ [][NextEscape]_vars

\* What the escaping is to produce, character by character.
EscapedChar(c) ==
    IF c = "'" THEN <<"'", "'">>
    ELSE IF c = "\\" THEN <<"\\", "\\">>
    ELSE <<c>>

RECURSIVE EscapedChars(_)
EscapedChars(s) ==
    IF s = <<>> THEN <<>> ELSE EscapedChar(Head(s)) \o EscapedChars(Tail(s))

TextType(t) == HasPrefixVARCHAR(t) \/ t = Lit("TEXT")

\* C8: the literal of a non-NULL field is the trimmed value with each single
\* quote doubled and each backslash doubled and nothing else changed, bare
\* or between single quotes, and between single quotes in a text column.
C8_EscapedLiteral ==
    (pc \in {"serialized", "escaped"}
        /\ ~IsNullValue(config, TrimSpace(arg.field))) =>
        LET body == EscapedChars(TrimSpace(arg.field)) IN
            /\ ret \in {body, <<"'">> \o body \o <<"'">>}
            /\ (pc = "escaped" \/ TextType(arg.type)) =>
                   ret = <<"'">> \o body \o <<"'">>

\* C8 witness: O'Brien in a VARCHAR column was serialized to 'O''Brien'.
C8_Witness ==
    /\ pc = "serialized"
    /\ arg.field = VOBrien
    /\ arg.type = VARCHAR(255)
    /\ ret = <<"'", "O", "'", "'", "B", "r", "i", "e", "n", "'">>

\* ----------------------------------------------------- sanitizing a header

SanitizeAlphabet == {"A", "b", "1", "_", " ", "-", "U+00E9"}

HOrderID == <<"O", "r", "d", "e", "r", " ", "I", "D">>

HCustomerName ==
    <<"C", "u", "s", "t", "o", "m", "e", "r", " ", "N", "a", "m", "e">>

RawHeaders ==
    SeqsUpTo(SanitizeAlphabet, MaxNameLen) \cup {HOrderID, HCustomerName}

InitSanitize ==
    /\ InitConvert(Variants, {PlainConfig}, {<<>>})
    /\ arg \in RawHeaders
    /\ ret = <<>>

\* A call of sanitizeColumnName.
CallSanitize ==
    /\ pc = "start"
    /\ ret' = sanitizeColumnName(impl, arg)
    /\ pc' = "sanitized"
    /\ UNCHANGED <<impl, config, file, stdin, fault, headers, columnTypes,
                   readPos, sampleCount, warnings, createTable, insertPos,
                   batchRows, sb, rowCount, result, arg>>

NextSanitize == CallSanitize

SpecSanitize == InitSanitize /\ [][NextSanitize]_vars

\* The sanitized name as the claim defines it, by positions of the trimmed
\* header: a position is kept when it holds a name character, and stands for
\* an underscore when it starts a run of other characters.
IsNameChar(c) == c \in AsciiLetters \cup Digits \cup {"_"}

Collapsed(t) ==
    LET keep == {i \in 1..Len(t) :
                    IsNameChar(t[i]) \/ i = 1 \/ IsNameChar(t[i - 1])}
        Nth(k) == CHOOSE i \in keep : Cardinality({j \in keep : j <= i}) = k
    IN  [k \in 1..Cardinality(keep) |->
            IF IsNameChar(t[Nth(k)]) THEN t[Nth(k)] ELSE "_"]

Strip(u) ==
    LET inner == {i \in 1..Len(u) : u[i] # "_"} IN
        IF inner = {} THEN <<>>
        ELSE LET lo == CHOOSE i \in inner : \A j \in inner : i <= j
                 hi == CHOOSE i \in inner : \A j \in inner : j <= i
             IN  [k \in 1..(hi - lo + 1) |-> u[lo + k - 1]]

ClaimedSanitize(raw) ==
    LET core == Strip(Collapsed(TrimSpace(raw)))
        named == IF core # <<>> /\ core[1] \notin AsciiLetters \cup {"_"}
                 THEN <<"_">> \o core ELSE core
    IN  ToLower(named)

\* C10: the sanitized header is the claimed pipeline's result; a non-empty
\* result holds only a-z, 0-9 and underscore and starts with a letter or an
\* underscore; Order ID gives order_id and Customer Name gives customer_name.
C10_SanitizeDefinition ==
    pc = "sanitized" =>
        /\ ret = ClaimedSanitize(arg)
        /\ ret # <<>> =>
               /\ \A i \in 1..Len(ret) :
                      ret[i] \in LowerLetters \cup Digits \cup {"_"}
               /\ ret[1] \in LowerLetters \cup {"_"}
        /\ arg = HOrderID => ret = <<"o", "r", "d", "e", "r", "_", "i", "d">>
        /\ arg = HCustomerName =>
               ret = <<"c", "u", "s", "t", "o", "m", "e", "r", "_",
                       "n", "a", "m", "e">>

\* ------------------------------------------------ input without a header row

NameColumn1 == SyntheticName(1)

\* nothing forced; column_1 forced to a type that is not a VARCHAR
NoHeaderColumns ==
    { [force |-> <<>>, skip |-> {}],
      [force |-> (NameColumn1 :> Lit("INT AUTO_INCREMENT")), skip |-> {}] }

NoHeaderConfigs ==
    {[MakeConfig(col, batch, sample, 255, 500) EXCEPT !.HasHeader = FALSE] :
        col \in NoHeaderColumns,
        batch \in {[on |-> FALSE, size |-> 1], [on |-> TRUE, size |-> MaxBatch]},
        sample \in 1..MaxSample}

NoHeaderRows ==
    {<<V1, V7>>, <<V1, VShort>>, <<V7, VDecimal>>, <<<<>>, VNullPadded>>}

NoHeaderFiles == SeqsUpTo(NoHeaderRows, MaxRows)

Stdins == {<<>>, << <<V1, VDate>> >>}

InitNoHeader ==
    /\ InitInput(Variants, NoHeaderConfigs, NoHeaderFiles, Stdins, {NoFault})
    /\ arg = <<>>
    /\ ret = <<>>

SpecNoHeader == InitNoHeader /\ [][Next]_vars

\* ----------------------------------------------------------------- C11, C12

\* The index in file of the first data row.
FirstDataRow == IF config.HasHeader THEN 2 ELSE 1

\* The data rows whose field count is the header count.
WellFormedRows ==
    {r \in FirstDataRow..Len(file) : Len(file[r]) = Len(headers)}

\* The row tags of the tuples of a DML, in the order of the text.
RECURSIVE RowTags(_)
RowTags(dml) ==
    IF dml = <<>> THEN <<>>
    ELSE [j \in 1..Len(dml[1].rows) |-> dml[1].rows[j].row] \o RowTags(Tail(dml))

\* C11: the DML of a finished conversion holds one tuple for each well-formed
\* data row, in input order, none dropped, duplicated or reordered, and none
\* for the header row.
C11_EveryRowOnceInOrder ==
    (pc = "done" /\ result.err = "nil") =>
        LET tags == RowTags(result.dml) IN
            /\ \A k \in 1..Len(tags) : tags[k] \in WellFormedRows
            /\ \A k \in 1..(Len(tags) - 1) : tags[k] < tags[k + 1]
            /\ Len(tags) = Cardinality(WellFormedRows)

\* C12: with no header row the columns are named column_1..column_n, the
\* sampling loop starts at the first row of the input, and the first tuple of
\* the DML is the first row's.
C12_FirstRowIsData ==
    ~config.HasHeader =>
        /\ headers # <<>> =>
               headers = [i \in 1..Len(file[1]) |-> SyntheticName(i)]
        /\ (pc = "sample" /\ sampleCount = 0 /\ warnings = 0) => readPos = 1
        /\ (pc = "done" /\ result.err = "nil") =>
               /\ result.dml # <<>>
               /\ result.dml[1].rows[1].row = 1

\* ---------------------------------------------------------------------- C13

\* The sampling loop is about to read a record whose field count is not the
\* header count.
RaggedRowNext ==
    /\ pc = "sample"
    /\ readPos <= Len(SampleSource)
    /\ SampleFault(readPos) = "none"
    /\ Len(SampleSource[readPos]) # Len(headers)

\* C13: a sampled row of the wrong field count is skipped with a warning; it
\* changes no type, is not counted, raises no error, and sampling goes on
\* with the next row.
C13_RaggedRowSkipped ==
    [][RaggedRowNext =>
          /\ pc' = "sample"
          /\ readPos' = readPos + 1
          /\ warnings' = warnings + 1
          /\ UNCHANGED <<columnTypes, sampleCount, result>>]_vars

\* ------------------------------------------------------ input with failures

\* os.Open failing; a malformed record among the data rows; the file read
\* failing from some position on, the end of the file included.
Faults ==
    {NoFault, [at |-> 0, kind |-> "open"]}
        \cup {[at |-> k, kind |-> kd] : k \in 2..(MaxRows + 1), kd \in {"parse", "io"}}

\* nothing forced (sampling runs in part_002 and part_001); every column
\* forced to a VARCHAR or skipped (no sampling); one column forced to another
\* type (sampling runs in main.go)
FaultColumns ==
    { [force |-> <<>>, skip |-> {}],
      [force |-> (NameA :> VARCHAR(10)), skip |-> {NameB}],
      [force |-> (NameA :> Lit("INT AUTO_INCREMENT")), skip |-> {}] }

FaultConfigs ==
    {MakeConfig(col, batch, sample, 255, 500) :
        col \in FaultColumns,
        batch \in {[on |-> FALSE, size |-> 1], [on |-> TRUE, size |-> MaxBatch]},
        sample \in {1, MaxSample}}

FaultRows == {<<V1, V7>>, <<V7, VShort>>, <<V1>>}

FaultFiles ==
    {<<>>} \cup {<<HeaderRow>> \o rows : rows \in SeqsUpTo(FaultRows, MaxRows)}

InitFaults ==
    /\ InitInput(Variants, FaultConfigs, FaultFiles, {<<>>}, Faults)
    /\ fault.kind = "parse" => fault.at <= Len(file)
    /\ fault.kind = "io" => fault.at <= Len(file) + 1
    /\ arg = <<>>
    /\ ret = <<>>

SpecFaults == InitFaults /\ [][Next]_vars

\* ---------------------------------------------------------------------- C14

\* The serialization loop is about to read a data row whose field count is
\* not the header count.
RaggedInsertNext ==
    /\ pc = "insert"
    /\ insertPos <= Len(file)
    /\ FaultAt(insertPos) = "none"
    /\ Len(file[insertPos]) # Len(headers)

\* Convert returns an error.
EndsInError(r) == r.err \notin {"pending", "nil"}

\* Convert has returned an error and both output strings are empty.
ErrorWithoutText ==
    EndsInError(result') => (result'.ddl = NoDDL /\ result'.dml = <<>>)

\* C14 as claimed: a data row of the wrong field count read by the
\* serialization pass ends the conversion in an error, and a conversion that
\* ends in an error returns neither DDL nor DML.
C14_RaggedRowFatal ==
    [][ /\ RaggedInsertNext => (pc' = "done" /\ EndsInError(result'))
        /\ ErrorWithoutText ]_vars

\* C14 amended: such a row ends the conversion in an error in part_002 and
\* main.go, and is skipped (no tuple, no error, the loop goes on) in
\* part_001; a conversion that ends in an error returns neither DDL nor DML.
C14_ErrorsReturnNothing ==
    [][ /\ (RaggedInsertNext /\ impl # "p1") =>
               (pc' = "done" /\ EndsInError(result'))
        /\ (RaggedInsertNext /\ impl = "p1") =>
               /\ pc' = "insert"
               /\ insertPos' = insertPos + 1
               /\ UNCHANGED <<sb, batchRows, rowCount, result>>
        /\ ErrorWithoutText ]_vars

\* C14 witness: part_002 returned a serialization error with empty strings
\* after a statement had been written to the buffer.
C14_Witness ==
    /\ impl = "p2"
    /\ pc = "done"
    /\ result.err = "error generating insert statements"
    /\ fault = NoFault
    /\ Len(sb) >= 1
    /\ result.ddl = NoDDL
    /\ result.dml = <<>>

\* ---------------------------------------------------------------------- C20

\* Convert is one sequential call: whenever it can take a step that changes
\* its state, it does.
MaxLiveRows == 2

LiveConfigs ==
    {MakeConfig(col, [on |-> TRUE, size |-> MaxBatch], 1, 255, 500) :
        col \in FaultColumns}

LiveFiles ==
    {<<>>} \cup {<<HeaderRow>> \o rows :
                    rows \in SeqsUpTo({<<V1, V7>>, <<V1>>}, MaxLiveRows)}

InitLive ==
    /\ InitInput(Variants, LiveConfigs, LiveFiles, {<<>>}, Faults)
    /\ fault.kind = "parse" => fault.at <= Len(file)
    /\ fault.kind = "io" => fault.at <= Len(file) + 1
    /\ arg = <<>>
    /\ ret = <<>>

LiveFaults == InitLive /\ [][Next]_vars /\ WF_vars(Next)

\* C20: Convert returns, whatever the reader reports.
C20_ConvertTerminates == <>(pc = "done")

\* ---------------------------------------------------------------------- C15

\* determineColumnTypes' sampling loop run to its end on the records src
\* from position pos on: the types it returns, or <<>> when it returns an
\* error.  first is the record that fixed the reader's field count.
RECURSIVE SampleLoop(_, _, _, _, _, _, _, _)
SampleLoop(variant, cfg, hdrs, first, src, pos, count, types) ==
    IF pos > Len(src) THEN types
    ELSE LET record == src[pos] IN
        IF Len(record) # Len(first)
        THEN IF variant = "p1"
             THEN SampleLoop(variant, cfg, hdrs, first, src, pos + 1, count, types)
             ELSE <<>>
        ELSE LET refined == RefineRecord(variant, cfg, hdrs, types, record) IN
             IF count + 1 >= SampleLimit(variant, cfg)
             THEN refined
             ELSE SampleLoop(variant, cfg, hdrs, first, src, pos + 1,
                             count + 1, refined)

\* The column types Convert resolves for the non-empty input f, with sin on
\* standard input and no read failure.
TypesOf(variant, cfg, f, sin) ==
    LET hdrs == [i \in 1..Len(f[1]) |->
                    IF cfg.HasHeader
                    THEN LET h == sanitizeColumnName(variant, f[1][i]) IN
                             IF variant # "main" /\ h = <<>>
                             THEN SyntheticName(i) ELSE h
                    ELSE SyntheticName(i)]
        types == InitColumnTypes(variant, cfg, hdrs)
        src == IF variant = "main" /\ ~cfg.HasHeader THEN <<f[1]>> \o sin ELSE f
        pos == IF variant = "main" /\ ~cfg.HasHeader THEN 1 ELSE 2
    IN  IF allForced(types) THEN types
        ELSE SampleLoop(variant, cfg, hdrs, f[1], src, pos, 0, types)

\* determineColumnTypes has returned types.
TypesResolved ==
    \/ pc \in {"create", "seek", "insert"}
    \/ pc = "done" /\ result.err = "nil"

\* The first n of the data rows of f that have the field count of its first
\* record, in order.
RECURSIVE WindowFrom(_, _, _)
WindowFrom(f, pos, n) ==
    IF n = 0 \/ pos > Len(f) THEN <<>>
    ELSE IF Len(f[pos]) = Len(f[1])
         THEN <<f[pos]>> \o WindowFrom(f, pos + 1, n - 1)
         ELSE WindowFrom(f, pos + 1, n)

\* The window is MaxSampleSize rows long (main.go: its fixed maxSampleSize).
SampleWindow(cfg, f) ==
    WindowFrom(f, IF cfg.HasHeader THEN 2 ELSE 1, SampleLimit(impl, cfg))

\* The inputs of the specification at hand that agree with file on the header
\* (or, with no header row, on the number of columns) and on the window.
SameWindowFiles(files) ==
    {f \in files :
        /\ f # <<>>
        /\ IF config.HasHeader THEN f[1] = file[1]
                               ELSE Len(f[1]) = Len(file[1])
        /\ SampleWindow(config, f) = SampleWindow(config, file)}

\* C15: every input that agrees with this one on the header and on the first
\* MaxSampleSize well-formed data rows resolves to the types this one
\* resolved to.
C15_TypesFromWindowOnly ==
    TypesResolved =>
        \A f \in SameWindowFiles(IF config.HasHeader THEN TypeFiles
                                                     ELSE NoHeaderFiles) :
            TypesOf(impl, config, f, stdin) = columnTypes

\* ------------------------------------------------------ classifying a value

ClassifyAlphabet == {"1", "-", ".", "e", "a"}

VMaxInt64 == MaxInt64Digits

\* 2^63: no int64, but a floating-point number
VPastInt64 ==
    <<"9", "2", "2", "3", "3", "7", "2", "0", "3", "6", "8", "5", "4", "7",
      "7", "5", "8", "0", "8">>

VSlashDate == <<"0", "1", "/", "0", "5", "/", "2", "0", "2", "4">>

VIsoDateTime ==
    <<"2", "0", "2", "4", "-", "0", "1", "-", "0", "5", "T",
      "1", "0", ":", "0", "0", ":", "0", "0", "Z">>

\* ten characters of a date and one more
VDatePlus == VDate \o <<"x">>

ClassifyValues ==
    (SeqsUpTo(ClassifyAlphabet, MaxValueLen) \ {<<>>})
        \cup { V7, VDecimal, VMaxInt64, VPastInt64, <<"i", "n", "f">>,
               <<"N", "a", "N">>, VDate, VSlashDate, VDateTime, VIsoDateTime,
               VDatePlus, VShort, <<"a", "b", "c", "d">>,
               <<"a", "b", "c", "d", "e", "f">>, VMid, VLong }

CurrentTypes == {Lit("TEXT"), Lit("BIGINT"), Lit("DATETIME"), VARCHAR(255)}

\* the default thresholds, and thresholds that short values cross
ClassifyConfigs ==
    { MakeConfig([force |-> <<>>, skip |-> {}], [on |-> FALSE, size |-> 1],
                 MaxSample, t.vl, t.tt) :
        t \in {[vl |-> 255, tt |-> 500], [vl |-> 3, tt |-> 5]} }

InitClassify ==
    /\ InitConvert({"p2", "p1"}, ClassifyConfigs, {<<>>})
    /\ arg \in [current : CurrentTypes, value : ClassifyValues]
    /\ ret = <<>>

\* A call of refineType.
CallRefineType ==
    /\ pc = "start"
    /\ ret' = refineType(config, arg.current, arg.value)
    /\ pc' = "refined"
    /\ UNCHANGED <<impl, config, file, stdin, fault, headers, columnTypes,
                   readPos, sampleCount, warnings, createTable, insertPos,
                   batchRows, sb, rowCount, result, arg>>

NextClassify == CallRefineType

SpecClassify == InitClassify /\ [][NextClassify]_vars

\* The check that decides for a value: the first that matches.
FirstMatch(v) ==
    CASE isInteger(v) -> "integer"
      [] ~isInteger(v) /\ isDecimal(v) -> "float"
      [] ~isInteger(v) /\ ~isDecimal(v) /\ isDate(v) -> "date"
      [] OTHER -> "text"

\* C16: refineType of part_002 and part_001 gives BIGINT to every value that
\* parses as an int64, else DECIMAL(20,6) to one that parses as a float, else
\* DATE (up to 10 characters) or DATETIME (longer) to one that matches a date
\* pattern, else TEXT above TextThreshold, a VARCHAR that holds the value
\* above VarcharLength, and VARCHAR(VarcharLength) otherwise.
C16_FirstMatchDecides ==
    pc = "refined" =>
        LET v == arg.value
            L == Len(arg.value)
        IN  CASE FirstMatch(v) = "integer" -> ret = Lit("BIGINT")
              [] FirstMatch(v) = "float" -> ret = Lit("DECIMAL(20,6)")
              [] FirstMatch(v) = "date" ->
                    ret = IF L <= 10 THEN Lit("DATE") ELSE Lit("DATETIME")
              [] OTHER ->
                    /\ L > config.TextThreshold => ret = Lit("TEXT")
                    /\ (L <= config.TextThreshold /\ L > config.VarcharLength) =>
                           (ret.kind = "VARCHAR" /\ ret.n >= L)
                    /\ L <= config.VarcharLength =>
                           ret = VARCHAR(config.VarcharLength)

\* C16 witness: 2^63 was classified, which the integer check rejects and the
\* floating-point check accepts.
C16_Witness ==
    /\ pc = "refined"
    /\ arg.value = VPastInt64
    /\ ~isInteger(arg.value)
    /\ ret = Lit("DECIMAL(20,6)")

\* ---------------------------------------------------------------------- C17

\* ceil(L/50)*50: the smallest multiple of 50 that is >= L
CeilTo50(L) == ((L + 49) \div 50) * 50

\* A value none of the integer, floating-point and date checks accepts.
TextValue(v) == ~isInteger(v) /\ ~isDecimal(v) /\ ~isDate(v)

\* The sampling loop takes a record into account in this step.
RowSampled == pc = "sample" /\ sampleCount' = sampleCount + 1

\* C17: when a column still at its base type samples a text value of length
\* L, VarcharLength < L <= TextThreshold, it becomes VARCHAR(ceil(L/50)*50);
\* and no inferred column ever gets a VARCHAR of more than 65535.
C17_WidenedToCeil50 ==
    [][RowSampled =>
          \A i \in 1..Len(headers) :
              LET v == TrimSpace(SampleSource[readPos][i])
                  L == Len(v)
              IN  Inferred(i) =>
                    /\ ( /\ columnTypes[i] = BaseType(impl)
                         /\ TextValue(v)
                         /\ L > config.VarcharLength
                         /\ L <= config.TextThreshold )
                           => columnTypes'[i] = VARCHAR(CeilTo50(L))
                    /\ columnTypes'[i].kind = "VARCHAR"
                           => columnTypes'[i].n <= MaxVarchar]_vars

\* ---------------------------------------------------------------------- C18

\* No data row of the input holds a value for column i that is, once trimmed,
\* neither empty nor the NULL literal.
NoValueInColumn(i) ==
    \A r \in FirstDataRow..Len(file) :
        i \in 1..Len(file[r]) => IsNullValue(config, TrimSpace(file[r][i]))

\* C18: a column that is neither forced nor skipped and has no value in any
\* data row resolves to VARCHAR(VarcharLength).
C18_BaseTypeVarchar ==
    TypesResolved =>
        \A i \in 1..Len(headers) :
            (Inferred(i) /\ NoValueInColumn(i)) =>
                columnTypes[i] = VARCHAR(config.VarcharLength)

\* ---------------------------------------------------------------------- C19

\* determineColumnTypes returns before its sampling loop.
SamplingSkipped == pc = "types" /\ pc' = "create"

\* What the sampling loop would have returned from this point on (<<>>: an
\* error).
FullSampling ==
    SampleLoop(impl, config, headers, file[1], SampleSource, readPos, 0,
               columnTypes')

\* C19: sampling is skipped only when every column is forced or skipped, and
\* then the types returned are those the sampling loop would have returned.
C19_FastPathOnlyWhenAllForced ==
    [][SamplingSkipped =>
          /\ \A i \in 1..Len(headers) : ~Inferred(i)
          /\ FullSampling # <<>> => FullSampling = columnTypes']_vars

\* ---------------------------------------------------------------------- C21

\* The indexes of the columns whose resolved type is not SKIP, ascending.
NonSkipped == {i \in 1..Len(columnTypes) : columnTypes[i] # Lit("SKIP")}

\* The k-th non-skipped column in header order.
NthNonSkipped(k) ==
    CHOOSE i \in NonSkipped : Cardinality({j \in NonSkipped : j <= i}) = k

\* The tuple t lines up with the column list cols: as many literals as
\* listed columns, the k-th literal made from the field of the k-th
\* non-skipped column of the tuple's row, which the list names.
TupleAligned(t, cols) ==
    /\ Len(t.values) = Len(cols)
    /\ \A k \in 1..Len(cols) :
           LET i == NthNonSkipped(k) IN
               /\ t.values[k].col = i
               /\ cols[k] = headers[i]
               /\ t.values[k].text =
                      SerializeField(config, columnTypes[i], file[t.row][i])

\* C21: the column definitions of CREATE TABLE, the column list of every
\* INSERT statement and every value tuple name the non-skipped columns in
\* header order, and every tuple holds one literal per listed column, the
\* k-th literal made from the k-th listed column's field.
C21_PositionallyConsistent ==
    /\ ~createTable.empty =>
           /\ Len(createTable.columns) = Cardinality(NonSkipped)
           /\ \A k \in 1..Len(createTable.columns) :
                  LET i == NthNonSkipped(k) IN
                      /\ createTable.columns[k].col = i
                      /\ createTable.columns[k].name = headers[i]
                      /\ createTable.columns[k].type = columnTypes[i]
    /\ \A s \in 1..Len(sb) :
           /\ Len(sb[s].columns) = Cardinality(NonSkipped)
           /\ Len(sb[s].columns) = Len(createTable.columns)
           /\ \A k \in 1..Len(sb[s].columns) :
                  sb[s].columns[k] = createTable.columns[k].name
           /\ \A j \in 1..Len(sb[s].rows) :
                  TupleAligned(sb[s].rows[j], sb[s].columns)
    /\ \A j \in 1..Len(batchRows) :
           TupleAligned(batchRows[j], formatInsertColumns(headers, columnTypes))
    /\ (pc = "done" /\ result.err = "nil") =>
           /\ result.ddl = createTable
           /\ result.dml = sb

\* C21 witness: a finished conversion with a skipped column ahead of a kept
\* one wrote a statement whose tuple holds a literal for the kept column.
C21_Witness ==
    /\ pc = "done"
    /\ result.err = "nil"
    /\ \E i \in 1..Len(columnTypes) :
           /\ columnTypes[i] = Lit("SKIP")
           /\ \E i2 \in NonSkipped : i < i2
    /\ \E s \in 1..Len(result.dml) :
           /\ Len(result.dml[s].columns) >= 1
           /\ Len(result.dml[s].rows) >= 1
           /\ Len(result.dml[s].rows[1].values) = Len(result.dml[s].columns)

\* ---------------------------------------------------------------------- C22

\* A name that no header sanitizes to.
NameMissing == <<"k", "e", "y">>

\* Config.PrimaryKeys: none, one header, two headers out of header order,
\* and a name that is not a header.
KeyOptions == {<<>>, <<NameA>>, <<NameB, NameA>>, <<NameMissing>>}

\* Nothing skipped, the first column skipped, the first column skipped and
\* forced.
KeyColumns ==
    { [force |-> <<>>, skip |-> {}],
      [force |-> <<>>, skip |-> {NameA}],
      [force |-> (NameA :> Lit("INT AUTO_INCREMENT")), skip |-> {NameA}] }

KeyConfigs ==
    { [MakeConfig(col, batch, MaxSample, 255, 500) EXCEPT !.PrimaryKeys = keys] :
        col \in KeyColumns,
        batch \in {[on |-> FALSE, size |-> 1], [on |-> TRUE, size |-> MaxBatch]},
        keys \in KeyOptions }

KeyRows == {<<V1, V7>>, <<V7, VShort>>}

KeyFiles ==
    {<<>>} \cup {<<HeaderRow>> \o rows : rows \in SeqsUpTo(KeyRows, MaxRows)}

InitKeys == InitWith(Variants, KeyConfigs, KeyFiles)

SpecKeys == InitKeys /\ [][Next]_vars

\* The names of the columns that the CREATE TABLE statement defines.
DefinedColumns ==
    {createTable.columns[c].name : c \in 1..Len(createTable.columns)}

\* The PRIMARY KEY clause is there exactly when keys are configured and
\* lists them in configured order.
KeysAsConfigured ==
    ~createTable.empty =>
        /\ (createTable.primaryKey # <<>>) <=> (config.PrimaryKeys # <<>>)
        /\ createTable.primaryKey = config.PrimaryKeys

\* C22: the PRIMARY KEY clause is in the CREATE TABLE statement exactly
\* when Config.PrimaryKeys is non-empty, lists the keys in configured
\* order, and names only columns that the same statement defines.
C22_PrimaryKeyOfDefinedColumns ==
    /\ KeysAsConfigured
    /\ ~createTable.empty =>
           \A k \in 1..Len(createTable.primaryKey) :
               createTable.primaryKey[k] \in DefinedColumns

====
